---- MODULE Spec2Model ----
(***************************************************************************)
(* The AI voice interview of app.py (ai_interview) together with the       *)
(* transcript log of utils.py, as a state machine.                         *)
(*                                                                         *)
(* Streamlit runs the whole script once per user event, so every action    *)
(* below is one event followed by the script run it triggers (and by the   *)
(* second run that st.rerun() asks for).  st.session_state is per browser  *)
(* session; TRANSCRIPT_FILE is one path of the server process and so is    *)
(* shared by all sessions.                                                 *)
(*                                                                         *)
(* Texts are modelled as tuples: the empty tuple is the empty string, a    *)
(* question is <<interview type, index>>, an answer is <<"said", sound>>.  *)
(* Sessions start with a summary generated and an OpenAI key entered       *)
(* (app.py:100 and app.py:140 pass).                                       *)
(***************************************************************************)
EXTENDS Naturals, Sequences, FiniteSets

\* ------------------------------------------------------------ bounds
\* longest question list the question API returns
MaxQuestions == 2
\* most entries of st.session_state.transcripts
MaxTranscript == 3
\* most Q/A blocks in the transcript file
MaxLogBlocks == 2

\* ------------------------------------------------------------ inputs
Sessions == {1, 2}
InterviewTypes == {"Technical", "HR"}
Sounds == {"yes"}
Pages == {"Generate Questions", "AI Interview"}

\* min(5, len(questions)), the default of the number input
DefaultNumQuestions == 5

\* "num_questions" not in st.session_state
NoNum == 0
\* st.audio_input holds no recording
NoAudio == [at |-> 0, snd |-> "none"]
\* TRANSCRIPT_FILE does not exist
Missing == << <<"missing">> >>

VARIABLES
    page,           \* the sidebar radio of each session
    questions,      \* st.session_state["questions"] (<<>>: absent or empty)
    num_questions,  \* st.session_state.num_questions
    current_q,      \* st.session_state.current_q
    transcripts,    \* st.session_state.transcripts
    audio,          \* the value of the st.audio_input widget
    shown,          \* what the last script run displayed
    file,           \* the lines of TRANSCRIPT_FILE, or Missing
    submits,        \* history: accepted answers since the run began
    steady,         \* history: the run so far is accepted answers only
    evalState       \* history: Generate Results requests since completion

vars == <<page, questions, num_questions, current_q, transcripts, audio,
          shown, file, submits, steady, evalState>>

Min(a, b) == IF a < b THEN a ELSE b

\* ------------------------------------------------------------ utils.py
\* The text of question i of a response for interview type t.
QuestionText(t, i) == <<t, i>>

\* result.get("questions", []) for a response of n questions
ApiQuestions(t, n) == [i \in 1..n |-> QuestionText(t, i)]

\* "\n".join(result).split('\n'): an empty list becomes one empty question
JoinSplit(r) == IF r = <<>> THEN << <<>> >> ELSE r

\* transcription.text for a recording
transcribe_audio(a) == <<"said", a.snd>>

\* the three lines "Q: <question>", "A: <answer>", "" of one entry
Block(q, a) == << <<"Q: ", q>>, <<"A: ", a>>, <<>> >>

\* open(TRANSCRIPT_FILE, "a") creates the file, then the block is appended
save_transcript_to_file(f, q, a) ==
    (IF f = Missing THEN <<>> ELSE f) \o Block(q, a)

\* faulty variant: the file is left as it is
clear_transcript_file_kept(f) == f

\* open(TRANSCRIPT_FILE, "w") and write("")
clear_transcript_file(f) == <<>>

\* str.strip() on the file's text: leading and trailing blank lines go
RECURSIVE Strip(_)
Strip(ls) ==
    IF ls = <<>> THEN <<>>
    ELSE IF Head(ls) = <<>> THEN Strip(Tail(ls))
    ELSE IF ls[Len(ls)] = <<>> THEN Strip(SubSeq(ls, 1, Len(ls) - 1))
    ELSE ls

\* what evaluate_answer raises before it builds the chain ("ok": nothing)
evaluate_answer(f) ==
    IF f = Missing THEN "FileNotFoundError"
    ELSE IF Strip(f) = <<>> THEN "ValueError"
    ELSE "ok"

\* ------------------------------------------------------------ app.py
\* value= of st.number_input
NumberInputValue(s) ==
    IF num_questions[s] # NoNum THEN num_questions[s]
    ELSE Min(DefaultNumQuestions, Len(questions[s]))

\* the script reaches the body of the interview page: questions exist and
\* st.number_input does not raise for a value above max_value
InterviewShown(s) ==
    /\ page[s] = "AI Interview"
    /\ questions[s] # <<>>
    /\ NumberInputValue(s) <= Len(questions[s])

\* the branch condition of the page
InProgress(s) == current_q[s] < num_questions[s]

Complete(s) == InterviewShown(s) /\ ~InProgress(s)

\* st.session_state.questions[:num_questions]
Truncate(qs, n) == SubSeq(qs, 1, Min(n, Len(qs)))

\* faulty variant: the cursor skips a question
AdvanceSkip(c) == c + 2

\* st.session_state.current_q += 1
Advance(c) == c + 1

\* the widget keeps its recording while the script renders it again
AudioAfterRun(a, rendered) == IF rendered THEN a ELSE NoAudio

Init ==
    /\ page = [s \in Sessions |-> "Generate Questions"]
    /\ questions = [s \in Sessions |-> <<>>]
    /\ num_questions = [s \in Sessions |-> NoNum]
    /\ current_q = [s \in Sessions |-> 0]
    /\ transcripts = [s \in Sessions |-> <<>>]
    /\ audio = [s \in Sessions |-> NoAudio]
    /\ shown = [s \in Sessions |-> "none"]
    /\ file = Missing
    /\ submits = [s \in Sessions |-> 0]
    /\ steady = [s \in Sessions |-> TRUE]
    /\ evalState = [s \in Sessions |-> "none"]


\* number of Q/A blocks in the transcript file
LogBlocks(f) == IF f = Missing THEN 0 ELSE Len(f) \div 3

\* lines 158-162 with the number input returning n
RunPrefix(s, n) ==
    /\ num_questions' = [num_questions EXCEPT ![s] = n]
    /\ questions' = [questions EXCEPT ![s] = Truncate(@, n)]

\* The sidebar radio is changed to page p and the script runs for p.  The
\* widgets of the page left are dropped at the end of that run.
Navigate(s, p) ==
    /\ p # page[s]
    /\ page' = [page EXCEPT ![s] = p]
    /\ audio' = [audio EXCEPT ![s] = NoAudio]
    /\ shown' = [shown EXCEPT ![s] = "none"]
    /\ IF p = "AI Interview" /\ questions[s] # <<>>
            /\ NumberInputValue(s) <= Len(questions[s])
       THEN RunPrefix(s, NumberInputValue(s))
       ELSE UNCHANGED <<num_questions, questions>>
    /\ UNCHANGED <<current_q, transcripts, file, submits, steady, evalState>>

\* "Generate Questions" is pressed; the API answers with n questions of
\* type t, or (faults) the request fails.
GenerateQuestions(s, t, n, faults) ==
    /\ page[s] = "Generate Questions"
    /\ \/ /\ questions' = [questions EXCEPT ![s] = JoinSplit(ApiQuestions(t, n))]
          /\ shown' = [shown EXCEPT ![s] = "questions"]
          /\ steady' = [steady EXCEPT ![s] = @ /\ submits[s] = 0]
       \/ /\ faults
          /\ shown' = [shown EXCEPT ![s] = "ApiError"]
          /\ UNCHANGED <<questions, steady>>
    /\ UNCHANGED <<page, num_questions, current_q, transcripts, audio, file,
                   submits, evalState>>

\* The number input is set to n (min_value 1, max_value len(questions)).
SetNumQuestions(s, n) ==
    /\ InterviewShown(s)
    /\ n \in 1..Len(questions[s])
    /\ n # num_questions[s]
    /\ RunPrefix(s, n)
    /\ audio' = [audio EXCEPT ![s] = AudioAfterRun(@, current_q[s] < n)]
    /\ shown' = [shown EXCEPT ![s] = "none"]
    /\ steady' = [steady EXCEPT ![s] = @ /\ submits[s] = 0]
    /\ UNCHANGED <<page, current_q, transcripts, file, submits, evalState>>

\* "Start Question" is pressed: speak_tts plays the question or (faults)
\* raises.
StartQuestion(s, faults) ==
    /\ InterviewShown(s) /\ InProgress(s)
    /\ \/ shown' = [shown EXCEPT ![s] = "audio"]
       \/ faults /\ shown' = [shown EXCEPT ![s] = "TTSError"]
    /\ UNCHANGED <<page, questions, num_questions, current_q, transcripts,
                   audio, file, submits, steady, evalState>>

\* An answer is recorded in the audio input.
RecordAudio(s, snd) ==
    /\ InterviewShown(s) /\ InProgress(s)
    /\ audio' = [audio EXCEPT ![s] = [at |-> current_q[s], snd |-> snd]]
    /\ shown' = [shown EXCEPT ![s] = "none"]
    /\ UNCHANGED <<page, questions, num_questions, current_q, transcripts,
                   file, submits, steady, evalState>>

\* the question of line 174 and the entry of lines 184-187
Question(s) == questions[s][current_q[s] + 1]
Entry(s) == [question |-> Question(s), answer |-> transcribe_audio(audio[s])]

\* "Submit Answer" is pressed with a recording present.  With faults the
\* transcription call or the opening of the file may raise.
SubmitAnswer(s, faults) ==
    /\ InterviewShown(s) /\ InProgress(s)
    /\ audio[s] # NoAudio
    /\ \/ \* transcribe_audio raises
          /\ faults
          /\ shown' = [shown EXCEPT ![s] = "TranscribeError"]
          /\ UNCHANGED <<transcripts, file, current_q, audio, submits, steady,
                         evalState>>
       \/ \* the entry is appended, then open(TRANSCRIPT_FILE, "a") raises
          /\ faults
          /\ Len(transcripts[s]) < MaxTranscript
          /\ transcripts' = [transcripts EXCEPT ![s] = Append(@, Entry(s))]
          /\ shown' = [shown EXCEPT ![s] = "SaveError"]
          /\ steady' = [steady EXCEPT ![s] = FALSE]
          /\ UNCHANGED <<file, current_q, audio, submits, evalState>>
       \/ \* every step succeeds and st.rerun() renders the next state
          /\ Len(transcripts[s]) < MaxTranscript
          /\ LogBlocks(file) < MaxLogBlocks
          /\ transcripts' = [transcripts EXCEPT ![s] = Append(@, Entry(s))]
          /\ file' = save_transcript_to_file(file, Entry(s).question,
                                             Entry(s).answer)
          /\ current_q' = [current_q EXCEPT ![s] = Advance(@)]
          /\ audio' = [audio EXCEPT ![s] =
                          AudioAfterRun(@, Advance(current_q[s]) < num_questions[s])]
          /\ shown' = [shown EXCEPT ![s] = "none"]
          /\ submits' = [submits EXCEPT ![s] = @ + 1]
          /\ evalState' = [evalState EXCEPT ![s] = "none"]
          /\ UNCHANGED steady
    /\ UNCHANGED <<page, questions, num_questions>>

Requested(e) == IF e = "none" THEN "requested" ELSE e

\* "Generate Results" is pressed on the completed interview.  With faults
\* chain.run or the opening of the file for writing may raise.
GenerateResults(s, faults) ==
    /\ Complete(s)
    /\ \/ \* evaluate_answer raises
          /\ evaluate_answer(file) # "ok"
          /\ shown' = [shown EXCEPT ![s] = evaluate_answer(file)]
          /\ evalState' = [evalState EXCEPT ![s] = Requested(@)]
          /\ UNCHANGED file
       \/ \* chain.run raises
          /\ faults
          /\ evaluate_answer(file) = "ok"
          /\ shown' = [shown EXCEPT ![s] = "ChainError"]
          /\ evalState' = [evalState EXCEPT ![s] = Requested(@)]
          /\ UNCHANGED file
       \/ \* the report is shown, then open(TRANSCRIPT_FILE, "w") raises
          /\ faults
          /\ evaluate_answer(file) = "ok"
          /\ shown' = [shown EXCEPT ![s] = "ReportClearError"]
          /\ evalState' = [evalState EXCEPT ![s] = Requested(@)]
          /\ UNCHANGED file
       \/ \* the report is shown and the file cleared
          /\ evaluate_answer(file) = "ok"
          /\ shown' = [shown EXCEPT ![s] = "Report"]
          /\ evalState' = [evalState EXCEPT ![s] = "evaluated"]
          /\ file' = clear_transcript_file(file)
    /\ UNCHANGED <<page, questions, num_questions, current_q, transcripts,
                   audio, submits, steady>>

\* "END Interview" is pressed on the completed interview.
EndInterview(s) ==
    /\ Complete(s)
    /\ current_q' = [current_q EXCEPT ![s] = 0]
    /\ transcripts' = [transcripts EXCEPT ![s] = <<>>]
    /\ shown' = [shown EXCEPT ![s] = "none"]
    /\ submits' = [submits EXCEPT ![s] = 0]
    /\ steady' = [steady EXCEPT ![s] = TRUE]
    /\ evalState' = [evalState EXCEPT ![s] = "none"]
    /\ UNCHANGED <<page, questions, num_questions, audio, file>>

\* the events of session s, with the question API answering with a list of
\* one of the types ts and one of the lengths ns; faults: calls to the
\* collaborators and to the file system may raise
Event(s, ts, ns, faults) ==
    \/ \E p \in Pages : Navigate(s, p)
    \/ \E t \in ts, n \in ns : GenerateQuestions(s, t, n, faults)
    \/ \E n \in 1..MaxQuestions : SetNumQuestions(s, n)
    \/ StartQuestion(s, faults)
    \/ \E snd \in Sounds : RecordAudio(s, snd)
    \/ SubmitAnswer(s, faults)
    \/ GenerateResults(s, faults)
    \/ EndInterview(s)

\* one browser session uses the server
Next == Event(1, InterviewTypes, 0..MaxQuestions, TRUE)
Spec == Init /\ [][Next]_vars

\* one browser session, and no call raises
NextReliable == Event(1, InterviewTypes, 0..MaxQuestions, FALSE)
SpecReliable == Init /\ [][NextReliable]_vars

\* two browser sessions use the server at once, each asking for its own
\* type of interview
TypeOf(s) == IF s = 1 THEN "Technical" ELSE "HR"
NextConcurrent ==
    \E s \in Sessions : Event(s, {TypeOf(s)}, {MaxQuestions}, TRUE)
SpecConcurrent == Init /\ [][NextConcurrent]_vars

\* ------------------------------------------------------------ properties
\* the file text that mirrors a transcript: its entries' blocks in order
RECURSIVE Serialize(_)
Serialize(tr) ==
    IF tr = <<>> THEN <<>>
    ELSE Block(Head(tr).question, Head(tr).answer) \o Serialize(Tail(tr))

\* the text of the log, a missing file having none
LogText == IF file = Missing THEN <<>> ELSE file

\* the question lines of the log that session s wrote (SpecConcurrent: the
\* questions of s are of type TypeOf(s))
IsQuestionOf(l, s) == Len(l) = 2 /\ l[1] = "Q: " /\ l[2] # <<>> /\ l[2][1] = TypeOf(s)
QuestionsOf(f, s) ==
    LET Own(l) == IsQuestionOf(l, s) IN SelectSeq(f, Own)
QuestionsNotOf(f, s) ==
    LET Foreign(l) == Len(l) = 2 /\ l[1] = "Q: " /\ ~IsQuestionOf(l, s)
    IN  SelectSeq(f, Foreign)

\* C1: END Interview leaves current_q = 0, the transcript empty and the
\* transcript file empty.
C1_ResetClearsLog ==
    [][\A s \in Sessions :
          EndInterview(s) =>
              /\ current_q'[s] = 0
              /\ transcripts'[s] = <<>>
              /\ file' = <<>>]_vars

\* C2: in every state of a single session the text of the transcript file
\* is the serialization of the session's in-memory transcript.
C2_LogMirrorsTranscript == LogText = Serialize(transcripts[1])

\* C3: between events the transcript has exactly current_q entries.
C3_TranscriptLengthIsCursor ==
    \A s \in Sessions : Len(transcripts[s]) = current_q[s]

\* C4: on the interview page 1 <= num_questions <= len(questions) and
\* 0 <= current_q <= num_questions, and num_questions does not change
\* while current_q > 0.
C4_CursorWithinActiveCount ==
    [][\A s \in Sessions :
          /\ InterviewShown(s)' =>
                /\ 1 <= num_questions'[s]
                /\ num_questions'[s] <= Len(questions'[s])
                /\ current_q'[s] <= num_questions'[s]
          /\ (current_q[s] > 0 /\ current_q'[s] > 0) =>
                num_questions'[s] = num_questions[s]]_vars

\* C5: a Submit Answer of which a step fails changes neither current_q nor
\* the transcript nor the transcript file.
SubmitFailures == {"TranscribeError", "SaveError"}
C5_FailedSubmitChangesNothing ==
    [][\A s \in Sessions :
          (SubmitAnswer(s, TRUE) /\ shown'[s] \in SubmitFailures) =>
              /\ current_q'[s] = current_q[s]
              /\ transcripts'[s] = transcripts[s]
              /\ file' = file]_vars

\* C6: the question of transcript entry i is question i of the session's
\* current question list, for every i below current_q.
C6_TranscriptQuestionsMatch ==
    \A s \in Sessions : \A i \in 1..current_q[s] :
        /\ i <= Len(transcripts[s])
        /\ i <= Len(questions[s])
        /\ transcripts[s][i].question = questions[s][i]

\* C7: in a run that so far consists of accepted answers only, with
\* num_questions chosen before the first of them, the page is Complete
\* exactly when num_questions answers have been accepted, and then
\* len(transcripts) = num_questions = current_q.
C7_CompleteAfterActiveCountSubmits ==
    \A s \in Sessions :
        (steady[s] /\ InterviewShown(s)) =>
            /\ submits[s] <= num_questions[s]
            /\ submits[s] < num_questions[s] => ~Complete(s)
            /\ submits[s] = num_questions[s] =>
                  /\ Complete(s)
                  /\ Len(transcripts[s]) = num_questions[s]
                  /\ current_q[s] = num_questions[s]

\* C7 witness: a run of two accepted answers that is Complete
C7_Witness ==
    /\ steady[1] /\ submits[1] = 2 /\ num_questions[1] = 2
    /\ Complete(1) /\ Len(transcripts[1]) = 2

\* C8 as claimed: a Generate Results request that is not the first of the
\* completed session, or that finds the log empty or missing, fails in
\* evaluate_answer before chain.run is called.
EvaluateErrors == {"ValueError", "FileNotFoundError"}
C8_SecondRequestFails ==
    [][\A s \in Sessions :
          (GenerateResults(s, TRUE)
              /\ (evalState[s] # "none" \/ LogText = <<>>)) =>
              shown'[s] \in EvaluateErrors]_vars

\* C8 amended: with one session using the log, a Generate Results request
\* that finds the log empty or missing, or that follows a request of the
\* same completed run which returned its report and cleared the log, fails
\* in evaluate_answer before chain.run is called and leaves the log as it
\* is.
C8_RequestAfterEvaluationFails ==
    [][(GenerateResults(1, TRUE)
          /\ (evalState[1] = "evaluated" \/ LogText = <<>>)) =>
          /\ shown'[1] \in EvaluateErrors
          /\ file' = file]_vars

\* C8 witness: the request after a completed evaluation raised ValueError
C8_Witness ==
    /\ Complete(1) /\ evalState[1] = "evaluated" /\ shown[1] = "ValueError"

\* C9: with two sessions, the text read for a session's Generate Results
\* holds that session's blocks only, and no Submit Answer or Generate
\* Results of a session changes the other session's blocks in the log.
C9_LogIsolated ==
    [][\A s \in Sessions :
          /\ (GenerateResults(s, TRUE) /\ evaluate_answer(file) = "ok") =>
                QuestionsNotOf(LogText, s) = <<>>
          /\ (GenerateResults(s, TRUE) \/ SubmitAnswer(s, TRUE)) =>
                \A o \in Sessions \ {s} :
                    QuestionsOf(LogText', o) = QuestionsOf(LogText, o)]_vars

\* C10: Submit Answer is enabled only with a recording made while the
\* current question was active.
C10_SampleIsOfCurrentQuestion ==
    \A s \in Sessions :
        (InterviewShown(s) /\ InProgress(s) /\ audio[s] # NoAudio) =>
            audio[s].at = current_q[s]

====
